---- MODULE Spec2Model ----
(***************************************************************************)
(* Products.ZMySQLDA, db.py: the per-thread connection pool (DBPool), the  *)
(* connection-string parser, the reconnect-and-retry logic of DB._query    *)
(* and the transaction callbacks of DB (_begin, _finish, _abort,           *)
(* savepoint).                                                             *)
(*                                                                         *)
(* Python values: a str is a sequence of one-character strings, None is    *)
(* PyNone, a dict is a function whose DOMAIN is its set of keys, False is  *)
(* the integer 0 (bool is a subclass of int).                              *)
(***************************************************************************)
EXTENDS Integers, Sequences, FiniteSets, TLC

VARIABLES
    \* ---- DBPool.__call__ / DB._parse_connection_string ----
    connection,          \* the connection string handed to the parser
    dsn_parts,           \* the parts the connection string was written from
    use_unicode,         \* DBPool.use_unicode
    _create_db,          \* DBPool._create_db
    client_multi,        \* _mysql.get_client_info()[0] >= "5"
    parsed,              \* outcome of a direct _parse_connection_string call
    _db_flags,           \* DBPool._db_flags
    call_result,         \* outcome of DBPool.__call__
    \* ---- DB: one record per connection object ----
    conn,                \* attributes, call frame and call history
    server_locks,        \* the server's advisory locks: name -> holder
    server_version,      \* the server's "version" variable
    \* ---- DBPool: the pool of one DB object per thread ----
    _db_pool,            \* DBPool._db_pool: which dict object it refers to
    heap,                \* the dict objects: thread ident -> DB object
    _db_lock,            \* DBPool._db_lock: 0, or the thread holding it
    thread,              \* per thread: position, locals, call counts
    created,             \* created[i]: the thread that created DB object i
    used,                \* <<i, t>>: thread t called a method of DB object i
    pool_reset           \* close() or closeConnection() has been called

dsn_vars == <<connection, dsn_parts, use_unicode, _create_db, client_multi,
              parsed, _db_flags, call_result>>

conn_vars == <<conn, server_locks, server_version>>

pool_vars == <<_db_pool, heap, _db_lock, thread, created, used, pool_reset>>

vars == <<dsn_vars, conn_vars, pool_vars>>

-----------------------------------------------------------------------------
(* Python values and dict helpers *)

PyNone == <<"None">>
PyTrue == <<"True">>

EmptyDict == [k \in {} |-> PyNone]

Put(d, k, v) == [x \in (DOMAIN d) \cup {k} |-> IF x = k THEN v ELSE d[x]]

Del(d, k) == [x \in (DOMAIN d) \ {k} |-> d[x]]

Get(d, k) == IF k \in DOMAIN d THEN d[k] ELSE PyNone

\* truth value of a str-or-None
Truthy(s) == s # PyNone /\ s # <<>>

Threads == {1, 2}

\* DBPool.__init__: an empty dict, a free lock, no DB object
NewPool ==
    /\ _db_pool = 1
    /\ heap = <<EmptyDict>>
    /\ _db_lock = 0
    /\ thread = [t \in Threads |-> [pc |-> "idle", ref |-> 0, db |-> PyNone,
                                    calls |-> 0, served |-> 0,
                                    exc |-> "None", outcome |-> "none"]]
    /\ created = <<>>
    /\ used = {}
    /\ pool_reset = FALSE

\* no DB object has been created
NoConns ==
    /\ conn = <<>>
    /\ server_locks = <<>>
    /\ server_version = <<>>

-----------------------------------------------------------------------------
(* str.split, int *)

RECURSIVE split_from(_, _, _, _)
split_from(s, i, cur, acc) ==
    IF i > Len(s)
    THEN IF cur = <<>> THEN acc ELSE Append(acc, cur)
    ELSE IF s[i] = " "
         THEN split_from(s, i + 1, <<>>,
                         IF cur = <<>> THEN acc ELSE Append(acc, cur))
         ELSE split_from(s, i + 1, Append(cur, s[i]), acc)

\* connection.split(): split on runs of whitespace, no empty items
split(s) == split_from(s, 1, <<>>, <<>>)

\* position of the first ch in s, 0 when there is none ("ch in s" is > 0)
find(s, ch) ==
    IF \E i \in 1..Len(s) : s[i] = ch
    THEN CHOOSE i \in 1..Len(s) :
            s[i] = ch /\ \A j \in 1..(i - 1) : s[j] # ch
    ELSE 0

\* s.split(ch, 1) when ch is in s
split_once(s, ch) ==
    LET i == find(s, ch)
    IN  <<SubSeq(s, 1, i - 1), SubSeq(s, i + 1, Len(s))>>

DigitChars == {"0", "1", "2", "3", "4", "5", "6", "7", "8", "9"}

DigitVal(c) ==
    CASE c = "0" -> 0 [] c = "1" -> 1 [] c = "2" -> 2 [] c = "3" -> 3
      [] c = "4" -> 4 [] c = "5" -> 5 [] c = "6" -> 6 [] c = "7" -> 7
      [] c = "8" -> 8 [] c = "9" -> 9

RECURSIVE digits_value(_, _)
digits_value(s, acc) ==
    IF s = <<>> THEN acc
    ELSE digits_value(Tail(s), acc * 10 + DigitVal(Head(s)))

\* int(port): an optional sign and decimal digits, ValueError otherwise
int_ok(s) ==
    LET body == IF s # <<>> /\ Head(s) \in {"+", "-"} THEN Tail(s) ELSE s
    IN  body # <<>> /\ \A i \in 1..Len(body) : body[i] \in DigitChars

int(s) ==
    IF s # <<>> /\ Head(s) = "-" THEN 0 - digits_value(Tail(s), 0)
    ELSE IF s # <<>> /\ Head(s) = "+" THEN digits_value(Tail(s), 0)
    ELSE digits_value(s, 0)

-----------------------------------------------------------------------------
(* DB._parse_connection_string                                             *)
(* Each operator takes the dicts built so far and returns                  *)
(* [exc, flags]: the exception raised ("None" for none) and the flags.     *)

Returned(flags) == [exc |-> "None", flags |-> flags]

Raised(exc) == [exc |-> exc, flags |-> PyNone]

\* lines 361-362: an empty database name is dropped
drop_empty_db(flags, kw) ==
    Put(flags, "kw_args", IF kw["db"] = <<>> THEN Del(kw, "db") ELSE kw)

\* lines 356-360: the +/- marker in front of the database name
strip_marker(flags, kw) ==
    IF kw["db"] # <<>> /\ Head(kw["db"]) \in {"+", "-"}
    THEN drop_empty_db(Put(flags, "try_transactions", <<Head(kw["db"])>>),
                       Put(kw, "db", Tail(kw["db"])))
    ELSE drop_empty_db(Put(flags, "try_transactions", PyNone), kw)

\* lines 350-353: host[:port]
split_host(kw, host) ==
    IF find(host, ":") > 0
    THEN Put(Put(kw, "port", int(split_once(host, ":")[2])),
             "host", split_once(host, ":")[1])
    ELSE Put(kw, "host", host)

\* lines 348-353: db@host[:port]; int(port) may raise
with_host(flags, kw, dbh) ==
    IF find(dbh[2], ":") > 0 /\ ~int_ok(split_once(dbh[2], ":")[2])
    THEN Raised("ValueError")
    ELSE Returned(strip_marker(flags,
                               split_host(Put(kw, "db", dbh[1]), dbh[2])))

\* lines 347-362: the database token
parse_db_host(flags, kw, db_host) ==
    IF find(db_host, "@") > 0
    THEN with_host(flags, kw, split_once(db_host, "@"))
    ELSE Returned(strip_marker(flags, Put(kw, "db", db_host)))

\* lines 363-368: user, password, socket
credentials(kw, items) ==
    IF Len(items) >= 3
    THEN Put(Put(Put(kw, "user", items[1]), "passwd", items[2]),
             "unix_socket", items[3])
    ELSE IF Len(items) = 2
    THEN Put(Put(kw, "user", items[1]), "passwd", items[2])
    ELSE IF Len(items) = 1
    THEN Put(kw, "user", items[1])
    ELSE kw

parse_credentials(r, items) ==
    IF r.exc # "None" THEN r
    ELSE Returned(Put(r.flags, "kw_args",
                      credentials(r.flags["kw_args"], items)))

parse_target(flags, db_host, items) ==
    parse_credentials(parse_db_host(flags, flags["kw_args"], db_host), items)

\* lines 339-346: the lock request; items[0] of an empty list raises
parse_lock(flags, lockreq, items) ==
    IF Head(lockreq) = "*"
    THEN IF items = <<>>
         THEN Raised("IndexError")
         ELSE parse_target(Put(Put(flags, "mysql_lock", Tail(lockreq)),
                               "use_TM", PyTrue),
                           Head(items), Tail(items))
    ELSE parse_target(Put(flags, "mysql_lock", PyNone), lockreq, items)

parse_items(flags, items) ==
    IF items = <<>> THEN Returned(flags)
    ELSE parse_lock(flags, Head(items), Tail(items))

\* lines 329-337
base_kw_args(unicode, multi) ==
    [k \in {"conv"}
         \cup (IF unicode THEN {"use_unicode", "charset"} ELSE {})
         \cup (IF multi THEN {"client_flag"} ELSE {}) |->
        CASE k = "conv" -> <<"cls.conv">>
          [] k = "use_unicode" -> PyTrue
          [] k = "charset" -> <<"u", "t", "f", "8">>
          [] k = "client_flag" -> <<"CLIENT.MULTI_STATEMENTS">>]

_parse_connection_string(dsn, unicode, multi) ==
    parse_items([kw_args |-> base_kw_args(unicode, multi),
                 connection |-> dsn,
                 use_TM |-> PyNone],
                split(dsn))

-----------------------------------------------------------------------------
(* DBPool.__call__                                                         *)

CLIENT_TRANSACTIONS == 8192

\* connection.server_capabilities & CLIENT.TRANSACTIONS
server_transactions(caps) ==
    ((caps \div CLIENT_TRANSACTIONS) % 2) * CLIENT_TRANSACTIONS

\* line 147-150
create_query(db, unicode) ==
    [db |-> db,
     charset |-> IF unicode THEN <<"u", "t", "f", "8">> ELSE PyNone]

\* lines 138-156: the trial connection. env.probe is what the server does:
\* "ok", or the first connect fails with OperationalError and then the
\* connect without a database fails ("nodb_fails"), the create statement
\* fails ("create_fails") or both succeed ("created").
probe(db, create, unicode, env) ==
    IF env.probe = "ok"
    THEN [exc |-> "None", create_query |-> PyNone]
    ELSE IF ~create \/ ~Truthy(db) \/ env.probe = "nodb_fails"
    THEN [exc |-> "OperationalError", create_query |-> PyNone]
    ELSE IF env.probe = "create_fails"
    THEN [exc |-> "OperationalError",
          create_query |-> create_query(db, unicode)]
    ELSE [exc |-> "None", create_query |-> create_query(db, unicode)]

\* lines 163-166
set_transactions(db_flags, transactional) ==
    IF transactional # 0 \/ Truthy(db_flags["mysql_lock"])
    THEN Put(Del(Put(db_flags, "transactions", transactional),
                 "try_transactions"), "use_TM", PyTrue)
    ELSE Del(Put(db_flags, "transactions", transactional),
             "try_transactions")

\* "+" with a server without transactions is accepted and downgraded
reconcile_no_raise(db_flags, capability) ==
    IF "try_transactions" \notin DOMAIN db_flags
    THEN [exc |-> "KeyError", flags |-> db_flags]
    ELSE IF db_flags["try_transactions"] = <<"-">>
    THEN Returned(set_transactions(db_flags, 0))
    ELSE Returned(set_transactions(db_flags, capability))

\* lines 158-166: the policy against the server's capability
reconcile(db_flags, capability) ==
    IF "try_transactions" \notin DOMAIN db_flags
    THEN [exc |-> "KeyError", flags |-> db_flags]
    ELSE IF db_flags["try_transactions"] = <<"-">>
    THEN Returned(set_transactions(db_flags, 0))
    ELSE IF capability = 0 /\ db_flags["try_transactions"] = <<"+">>
    THEN [exc |-> "NotSupportedError", flags |-> db_flags]
    ELSE Returned(set_transactions(db_flags, capability))

after_reconcile(rc, pr) ==
    [exc |-> rc.exc, flags |-> rc.flags, create_query |-> pr.create_query,
     returned |-> rc.exc = "None"]

after_probe(db_flags, pr, env) ==
    IF pr.exc # "None"
    THEN [exc |-> pr.exc, flags |-> db_flags,
          create_query |-> pr.create_query, returned |-> FALSE]
    ELSE after_reconcile(reconcile(db_flags, server_transactions(env.caps)),
                         pr)

after_parse(p, create, unicode, env) ==
    IF p.exc # "None"
    THEN [exc |-> p.exc, flags |-> PyNone, create_query |-> PyNone,
          returned |-> FALSE]
    ELSE after_probe(p.flags,
                     probe(Get(p.flags["kw_args"], "db"), create, unicode,
                           env),
                     env)

__call__(dsn, unicode, multi, create, env) ==
    after_parse(_parse_connection_string(dsn, unicode, multi), create,
                unicode, env)

-----------------------------------------------------------------------------
(* Connection strings of the documented format                            *)
(*   [*<lockname>] [[+|-]<dbname>[@host[:port]]]                           *)
(*                                 [<user> [<password> [<unix_socket>]]]   *)
(* read by position: the token after the lock name is the database token. *)

MaxNameLen == 1

NamesOf(ch) == {[i \in 1..n |-> ch] : n \in 1..MaxNameLen}

NoPort == [set |-> FALSE, txt |-> <<>>, num |-> 0]

Ports == {[set |-> TRUE, txt |-> <<"7">>, num |-> 7],
          [set |-> TRUE, txt |-> <<"3", "3", "0", "6">>, num |-> 3306]}

AllParts ==
    [lock : {PyNone} \cup NamesOf("l"),
     policy : {PyNone, <<"+">>, <<"-">>},
     db : {PyNone} \cup NamesOf("d"),
     host : {PyNone} \cup NamesOf("h"),
     port : {NoPort} \cup Ports,
     user : {PyNone, <<"u">>},
     passwd : {PyNone, <<"p", "w">>},
     unix_socket : {PyNone, <<"/", "s">>}]

HasTarget(p) == p.policy # PyNone \/ p.db # PyNone \/ p.host # PyNone

WellFormedParts ==
    {p \in AllParts :
        /\ p.port.set => p.host # PyNone
        /\ p.user # PyNone => HasTarget(p)
        /\ p.passwd # PyNone => p.user # PyNone
        /\ p.unix_socket # PyNone => p.passwd # PyNone}

Opt(s) == IF s = PyNone THEN <<>> ELSE s

TargetToken(p) ==
    Opt(p.policy) \o Opt(p.db)
      \o (IF p.host = PyNone THEN <<>>
          ELSE <<"@">> \o p.host
                 \o (IF p.port.set THEN <<":">> \o p.port.txt ELSE <<>>))

Tokens(p) ==
    (IF p.lock = PyNone THEN <<>> ELSE << <<"*">> \o p.lock >>)
      \o (IF HasTarget(p) THEN <<TargetToken(p)>> ELSE <<>>)
      \o (IF p.user = PyNone THEN <<>> ELSE <<p.user>>)
      \o (IF p.passwd = PyNone THEN <<>> ELSE <<p.passwd>>)
      \o (IF p.unix_socket = PyNone THEN <<>> ELSE <<p.unix_socket>>)

RECURSIVE Join(_)
Join(toks) ==
    IF toks = <<>> THEN <<>>
    ELSE IF Len(toks) = 1 THEN toks[1]
    ELSE toks[1] \o <<" ">> \o Join(Tail(toks))

Render(p) == Join(Tokens(p))

ServerCaps == {0, 1, CLIENT_TRANSACTIONS, CLIENT_TRANSACTIONS + 1}

ProbeEnvs ==
    [probe : {"ok", "connect_fails", "nodb_fails", "create_fails", "created"},
     caps : ServerCaps]

NoEnv == [probe |-> "none", caps |-> 0]

NotCalled == [exc |-> "pending", create_query |-> PyNone, returned |-> FALSE,
              env |-> NoEnv]

NotParsed == [exc |-> "pending", flags |-> PyNone]

\* no connection string has been given
NoDSN ==
    /\ connection = <<>> /\ dsn_parts = <<>> /\ use_unicode = FALSE
    /\ _create_db = FALSE /\ client_multi = FALSE
    /\ parsed = NotParsed /\ _db_flags = PyNone /\ call_result = NotCalled

InitDSN ==
    /\ dsn_parts \in WellFormedParts
    /\ connection = Render(dsn_parts)
    /\ use_unicode \in BOOLEAN
    /\ _create_db \in BOOLEAN
    /\ client_multi \in BOOLEAN
    /\ parsed = NotParsed
    /\ _db_flags = PyNone
    /\ call_result = NotCalled
    /\ NoConns
    /\ NewPool

\* a direct call of the class method
Parse ==
    /\ parsed.exc = "pending"
    /\ parsed' = _parse_connection_string(connection, use_unicode,
                                          client_multi)
    /\ UNCHANGED <<connection, dsn_parts, use_unicode, _create_db,
                   client_multi, _db_flags, call_result>>
    /\ UNCHANGED <<conn_vars, pool_vars>>

\* pool(connection): DBPool.__call__ against some server
Call ==
    /\ call_result.exc = "pending"
    /\ \E env \in ProbeEnvs :
         LET r == __call__(connection, use_unicode, client_multi,
                           _create_db, env)
         IN  /\ call_result' = [exc |-> r.exc,
                                 create_query |-> r.create_query,
                                 returned |-> r.returned, env |-> env]
             /\ _db_flags' = r.flags
    /\ UNCHANGED <<connection, dsn_parts, use_unicode, _create_db,
                   client_multi, parsed>>
    /\ UNCHANGED <<conn_vars, pool_vars>>

NextDSN == Parse \/ Call

SpecDSN == InitDSN /\ [][NextDSN]_vars

-----------------------------------------------------------------------------
(* DB: native errors and their classification in _query                    *)

CR_SERVER_GONE_ERROR == 2006
CR_SERVER_LOST == 2013
CR_COMMANDS_OUT_OF_SYNC == 2014
ER_BAD_FIELD_ERROR == 1054

\* the keys of hosed_connection
hosed_connection ==
    {CR_SERVER_GONE_ERROR, CR_SERVER_LOST, CR_COMMANDS_OUT_OF_SYNC}

query_syntax_error == {ER_BAD_FIELD_ERROR}

\* codes in neither table: ER.PARSE_ERROR, ER.LOCK_DEADLOCK
OtherCodes == {1064, 1213}

NoError == [kind |-> "None", code |-> 0, annotated |-> FALSE]

\* what the native client raises from query(): each code in the exception
\* class the client gives it (ProgrammingError for COMMANDS_OUT_OF_SYNC and
\* PARSE_ERROR, OperationalError for the other codes), and an exception of
\* a class _query has no except clause for
NativeErrors ==
    [kind : {"OperationalError"},
     code : {CR_SERVER_GONE_ERROR, CR_SERVER_LOST, ER_BAD_FIELD_ERROR, 1213},
     annotated : {FALSE}]
      \cup [kind : {"ProgrammingError"},
            code : {CR_COMMANDS_OUT_OF_SYNC, 1064},
            annotated : {FALSE}]
      \cup [kind : {"InterfaceError"}, code : {0}, annotated : {FALSE}]

\* self.db is None: self.db.query is an AttributeError
NoHandleError == [kind |-> "AttributeError", code |-> 0, annotated |-> FALSE]

\* MySQLdb.connect or ping(True) failing in _forceReconnection
ConnectError == [kind |-> "OperationalError", code |-> 2003,
                 annotated |-> FALSE]

ConflictError == [kind |-> "ConflictError", code |-> 0, annotated |-> FALSE]

AttributeError == [kind |-> "AttributeError", code |-> 0,
                   annotated |-> FALSE]

SchemaError == [kind |-> "ProgrammingError", code |-> 0, annotated |-> FALSE]

\* a syntax error is handled like any other OperationalError
classify_no_syntax(m, force_reconnect, mysql_lock, transactions) ==
    IF m.kind = "OperationalError"
    THEN IF (~force_reconnect /\ (Truthy(mysql_lock) \/ transactions # 0))
               \/ m.code \notin hosed_connection
         THEN "raise"
         ELSE "reconnect_retry"
    ELSE IF m.kind = "ProgrammingError"
    THEN IF m.code \in hosed_connection THEN "reconnect_raise" ELSE "raise"
    ELSE "raise"

\* lines 459-482: what _query does with the exception m of self.db.query
classify(m, force_reconnect, mysql_lock, transactions) ==
    IF m.kind = "OperationalError"
    THEN IF m.code \in query_syntax_error THEN "raise_annotated"
         ELSE IF (~force_reconnect /\ (Truthy(mysql_lock) \/ transactions # 0))
                    \/ m.code \notin hosed_connection
         THEN "raise"
         ELSE "reconnect_retry"
    ELSE IF m.kind = "ProgrammingError"
    THEN IF m.code \in hosed_connection THEN "reconnect_raise" ELSE "raise"
    ELSE "raise"

-----------------------------------------------------------------------------
(* DB: the connection object.                                              *)
(* conn[c] holds the attributes of the DB object (db, _mysql_lock,         *)
(* _use_TM, _transactions, _transaction_begun, _registered, _version),     *)
(* the position of the call in progress (op, todo, q_state, q_pending,     *)
(* desc, result, max_rows) and the history of the last _query (q_...)      *)
(* and of the last call (c_...).                                           *)

Conns == {1, 2}

LockNames == {<<"a">>, <<"b">>}

\* "5.0.3" sorts above "5.0.2"; "10.4" and "4.1" sort below it
Versions == {<<"4", ".", "1">>, <<"5", ".", "0", ".", "3">>,
             <<"1", "0", ".", "4">>}

Ord(ch) == IF ch = "." THEN 0 ELSE 1 + DigitVal(ch)

\* a < b for str
RECURSIVE str_lt(_, _)
str_lt(a, b) ==
    IF b = <<>> THEN FALSE
    ELSE IF a = <<>> THEN TRUE
    ELSE IF Head(a) # Head(b) THEN Ord(Head(a)) < Ord(Head(b))
    ELSE str_lt(Tail(a), Tail(b))

Stmt(sql) ==
    [sql |-> sql, word |-> "", qtype |-> "", schema |-> PyNone, limit |-> <<>>]

Item(section, stmt) == [section |-> section, stmt |-> stmt]

\* the call is over: it returned, or raised exc
Complete(s, outcome, exc) ==
    [s EXCEPT !.op = "idle", !.todo = <<>>, !.q_state = "none",
              !.q_pending = NoError, !.c_outcome = outcome, !.c_exc = exc]

\* a call that has returned nothing (yet)
NoReturn == [items |-> PyNone, rows |-> PyNone]

\* lines 510-524: what query() returns after the loop
query_return(s) ==
    IF s.desc = PyNone THEN [items |-> <<>>, rows |-> <<>>]
    ELSE [items |-> s.desc, rows |-> s.result]

\* the next native call of the frame, or its return
Arm(s) ==
    IF s.todo = <<>>
    THEN Complete([s EXCEPT !.c_return = IF s.op = "query"
                                         THEN query_return(s) ELSE @],
                  "returned", NoError)
    ELSE IF Head(s.todo).stmt.sql = "PING" THEN [s EXCEPT !.q_state = "ping"]
    ELSE [s EXCEPT !.q_state = "submit",
                   !.q_pending = NoError,
                   !.q_stmt = Head(s.todo).stmt.sql,
                   !.q_err = NoError,
                   !.q_retry_err = NoError,
                   !.q_submits = 0,
                   !.q_reconnects = 0,
                   !.q_outcome = "running",
                   !.q_exc = NoError]

\* _begin without the try/except: the exception leaves as it is
Raise_begin_unwrapped(s, exc) ==
    IF Head(s.todo).section = "finish"
    THEN Complete(s, "ConflictError", ConflictError)
    ELSE IF Head(s.todo).section = "columns"
    THEN Complete(s, "returned", NoError)
    ELSE Complete(s, exc.kind, exc)

\* lines 548-550, 563-565, 391-392: an exception leaves the statement the
\* frame is at; _begin and _finish turn it into ConflictError, columns
\* swallows it
Raise(s, exc) ==
    IF Head(s.todo).section \in {"begin", "finish"}
    THEN Complete(s, "ConflictError", ConflictError)
    ELSE IF Head(s.todo).section = "columns"
    THEN Complete(s, "returned", NoError)
    ELSE Complete(s, exc.kind, exc)

\* the second check of savepoint() is left out
SavepointChecks_version_only(s) ==
    IF str_lt(s._version, <<"5", ".", "0", ".", "2">>)
    THEN Complete(s, "AttributeError", AttributeError)
    ELSE Arm([s EXCEPT !.todo = <<Item("savepoint", Stmt("SAVEPOINT"))>>])

\* _query raises exc
QRaise(s, exc) ==
    Raise([s EXCEPT !.q_outcome = "raised", !.q_exc = exc,
                    !.c_failed = TRUE], exc)

\* lines 595-604: the checks of savepoint() once the version is known
SavepointChecks(s) ==
    IF str_lt(s._version, <<"5", ".", "0", ".", "2">>)
    THEN Complete(s, "AttributeError", AttributeError)
    ELSE IF ~s._transaction_begun
    THEN Complete(s, "AttributeError", AttributeError)
    ELSE Arm([s EXCEPT !.todo = <<Item("savepoint", Stmt("SAVEPOINT"))>>])

\* query() whose desc survives a statement without a result set
AfterStatement_keep_desc(s, stmt) ==
    IF s.desc # PyNone /\ stmt.schema # PyNone /\ stmt.schema # s.desc
    THEN Complete([s EXCEPT !.c_results = Append(@, stmt.schema)],
                  "ProgrammingError", SchemaError)
    ELSE Arm([s EXCEPT !.todo = Tail(@),
                       !.desc = IF stmt.schema # PyNone THEN stmt.schema
                                ELSE @,
                       !.result = IF stmt.schema # PyNone THEN <<stmt.sql>>
                                  ELSE @,
                       !.c_results = Append(@, stmt.schema)])

\* lines 496-508: query() after statement stmt returned c; the rows of a
\* statement are named by the statement
AfterStatement(s, stmt) ==
    IF s.desc # PyNone /\ stmt.schema # PyNone /\ stmt.schema # s.desc
    THEN Complete([s EXCEPT !.c_results = Append(@, stmt.schema)],
                  "ProgrammingError", SchemaError)
    ELSE Arm([s EXCEPT !.todo = Tail(@),
                       !.desc = stmt.schema,
                       !.result = IF stmt.schema # PyNone THEN <<stmt.sql>>
                                  ELSE @,
                       !.c_results = Append(@, stmt.schema)])

\* self.db.query and store_result succeeded for the statement at the head
AfterItem(s, version) ==
    IF Head(s.todo).section = "version"
    THEN SavepointChecks([s EXCEPT !._version = version, !.todo = Tail(@)])
    ELSE IF Head(s.todo).section = "query"
    THEN AfterStatement(s, Head(s.todo).stmt)
    ELSE IF Head(s.todo).section = "begin"
              /\ (Len(s.todo) = 1 \/ s.todo[2].section # "begin")
    THEN \* _begin returned
         Arm([s EXCEPT !.todo = Tail(@), !.began = TRUE,
                       !._registered = IF s.op = "query" THEN TRUE ELSE @])
    ELSE Arm([s EXCEPT !.todo = Tail(@)])

\* self.db.query(query) was called and ended with o (NoError: it returned)
Submitted(s, o) ==
    [s EXCEPT !.q_submits = @ + 1,
              !.c_sent = IF s.db = "None" THEN @ ELSE Append(@, s.q_stmt),
              !.c_limit = IF s.db = "None" THEN @
                          ELSE Append(@, Head(s.todo).stmt.limit),
              !.begin_sent = @ \/ (s.q_stmt = "BEGIN" /\ s.db # "None"),
              !.q_err = IF s.q_submits = 0 THEN o ELSE @,
              !.q_retry_err = IF s.q_submits = 0 THEN @ ELSE o,
              !.q_outcome = IF o = NoError THEN "returned" ELSE @,
              !.c_failed = @ \/ o # NoError]

\* lines 459-482: the except clauses of _query
OnError(s, m) ==
    IF classify(m, FALSE, s._mysql_lock, s._transactions) = "raise_annotated"
    THEN QRaise(s, [kind |-> "OperationalError", code |-> m.code,
                    annotated |-> TRUE])
    ELSE IF classify(m, FALSE, s._mysql_lock, s._transactions) = "raise"
    THEN QRaise(s, m)
    ELSE IF classify(m, FALSE, s._mysql_lock, s._transactions)
              = "reconnect_retry"
    THEN [s EXCEPT !.q_state = "reconnect", !.q_pending = NoError]
    ELSE [s EXCEPT !.q_state = "reconnect", !.q_pending = m]

\* the second submission is handled like the first
OnRetryError_again(s, m) == OnError(s, m)

\* line 474 is inside the except clause: nothing catches what it raises
OnRetryError(s, m) == QRaise(s, m)

\* _forceReconnection that connects without closing self.db first
Reconnected_no_teardown(s, how) ==
    [s EXCEPT !.db = IF how = "connect_fails" THEN @ ELSE "open",
              !.handles = IF how = "connect_fails" THEN @ ELSE @ + 1,
              !.q_reconnects = @ + 1,
              !.c_reconnects = @ + 1,
              !.c_failed = @ \/ how # "ok"]

\* lines 308-318: _forceReconnection; how is "ok", "connect_fails" or
\* "ping_fails". self.db.close() closes an open handle and raises, to no
\* effect, on a closed one or on None; the handle MySQLdb.connect returned
\* is open and is the new self.db, also when ping(True) raises
Reconnected(s, how) ==
    [s EXCEPT !.db = IF how = "connect_fails"
                     THEN (IF @ = "None" THEN "None" ELSE "closed")
                     ELSE "open",
              !.handles = (IF s.db = "open" THEN @ - 1 ELSE @)
                            + (IF how = "connect_fails" THEN 0 ELSE 1),
              !.q_reconnects = @ + 1,
              !.c_reconnects = @ + 1,
              !.c_failed = @ \/ how # "ok"]

\* lines 473-474, 477-482: after _forceReconnection
AfterReconnect(s, how) ==
    IF how # "ok" THEN QRaise(s, ConnectError)
    ELSE IF s.q_pending # NoError THEN QRaise(s, s.q_pending)
    ELSE [s EXCEPT !.q_state = "resubmit"]

\* what self.db.query can do on the handle the connection has
Outcomes(s) ==
    IF s.db = "open" THEN {NoError} \cup NativeErrors
    ELSE IF s.db = "closed" THEN NativeErrors
    ELSE {NoHandleError}

\* the server runs a statement of connection c
ServerExec(locks, c, sql, name) ==
    IF sql = "GET_LOCK" /\ locks[name] \in {0, c}
    THEN [locks EXCEPT ![name] = c]
    ELSE IF sql = "RELEASE_LOCK" /\ locks[name] = c
    THEN [locks EXCEPT ![name] = 0]
    ELSE locks

\* the server ends the session of connection c
ServerClose(locks, c) == [n \in DOMAIN locks |-> IF locks[n] = c THEN 0
                                                 ELSE locks[n]]

-----------------------------------------------------------------------------
(* DB: the calls *)

\* the transaction callbacks start from the idle state
idle == FALSE

\* lines 286-297: the attributes after __init__ connected
NewConn(transactions, mysql_lock) ==
    [db |-> "open",
     _mysql_lock |-> mysql_lock,
     _transactions |-> transactions,
     _use_TM |-> IF transactions # 0 \/ Truthy(mysql_lock) THEN PyTrue
                 ELSE PyNone,
     _transaction_begun |-> idle,
     _registered |-> FALSE,
     _version |-> PyNone,
     op |-> "idle", todo |-> <<>>, q_state |-> "none", q_pending |-> NoError,
     desc |-> PyNone, result |-> <<>>, max_rows |-> 0,
     c_return |-> NoReturn, handles |-> 1, begin_sent |-> FALSE,
     q_stmt |-> "", q_err |-> NoError, q_retry_err |-> NoError,
     q_submits |-> 0, q_reconnects |-> 0, q_outcome |-> "none",
     q_exc |-> NoError,
     c_op |-> "none", c_after_end |-> FALSE, c_was_begun |-> FALSE,
     c_was_cached |-> FALSE, c_sent |-> <<>>, c_failed |-> FALSE,
     c_reconnects |-> 0, c_outcome |-> "none", c_exc |-> NoError,
     c_results |-> <<>>, c_limit |-> <<>>,
     began |-> FALSE]

\* a connection object that does not exist in this run
NoConn == [NewConn(0, PyNone) EXCEPT !.op = "absent"]

\* a call of op starts: the history of the last call is replaced
NewCall(s, op) ==
    [s EXCEPT !.op = op,
              !.c_after_end = s.c_op \in {"finish", "abort"},
              !.c_op = op,
              !.c_was_begun = s._transaction_begun,
              !.c_was_cached = Truthy(s._version),
              !.c_sent = <<>>, !.c_failed = FALSE, !.c_reconnects = 0,
              !.c_outcome = "running", !.c_exc = NoError,
              !.c_results = <<>>, !.c_limit = <<>>,
              !.desc = PyNone, !.result = <<>>, !.max_rows = 0,
              !.c_return = NoReturn,
              !.begin_sent = @ /\ s._transaction_begun,
              !.q_stmt = "", !.q_err = NoError, !.q_retry_err = NoError,
              !.q_submits = 0, !.q_reconnects = 0, !.q_outcome = "none",
              !.q_exc = NoError]

\* lines 543-547: ping, BEGIN, GET_LOCK
begin_items(s) ==
    <<Item("begin", Stmt("PING"))>>
      \o (IF s._transactions # 0 THEN <<Item("begin", Stmt("BEGIN"))>>
          ELSE <<>>)
      \o (IF Truthy(s._mysql_lock) THEN <<Item("begin", Stmt("GET_LOCK"))>>
          ELSE <<>>)

\* lines 559-562, 573-576: RELEASE_LOCK, then COMMIT or ROLLBACK
end_items(s, section, last) ==
    (IF Truthy(s._mysql_lock) THEN <<Item(section, Stmt("RELEASE_LOCK"))>>
     ELSE <<>>)
      \o (IF s._transactions # 0 THEN <<Item(section, Stmt(last))>>
          ELSE <<>>)

_begin(s) ==
    Arm([s EXCEPT !._transaction_begun = TRUE, !.began = FALSE,
                  !.todo = begin_items(s) \o @])

\* _finish without the check of _transaction_begun
_finish_always(s) ==
    Arm([s EXCEPT !._transaction_begun = FALSE,
                  !.todo = end_items(s, "finish", "COMMIT")])

\* _finish that leaves _transaction_begun as it is
_finish_keep_active(s) ==
    IF ~s._transaction_begun THEN Complete(s, "returned", NoError)
    ELSE Arm([s EXCEPT !.todo = end_items(s, "finish", "COMMIT")])

_finish(s) ==
    IF ~s._transaction_begun THEN Complete(s, "returned", NoError)
    ELSE Arm([s EXCEPT !._transaction_begun = FALSE,
                       !.todo = end_items(s, "finish", "COMMIT")])

\* _abort that sends ROLLBACK on every connection
_abort_always_rollback(s) ==
    IF ~s._transaction_begun THEN Complete(s, "returned", NoError)
    ELSE Arm([s EXCEPT !._transaction_begun = FALSE,
                       !.todo = end_items([s EXCEPT !._transactions = 1],
                                          "abort", "ROLLBACK")])

_abort(s) ==
    IF ~s._transaction_begun THEN Complete(s, "returned", NoError)
    ELSE Arm([s EXCEPT !._transaction_begun = FALSE,
                       !.todo = end_items(s, "abort", "ROLLBACK")])

\* the coordinator ends the transaction of this participant
unregister(s) == [s EXCEPT !._registered = FALSE, !.began = FALSE]

\* lines 580-587 and 595: _mysql_version() fetches the version once
savepoint(s) ==
    IF ~Truthy(s._version)
    THEN Arm([s EXCEPT !.todo = <<Item("version", Stmt("SHOW VARIABLES"))>>])
    ELSE SavepointChecks(s)

\* tables, columns, variables: one _query
execute(s, section, sql) == Arm([s EXCEPT !.todo = <<Item(section, Stmt(sql))>>])

\* lines 299-304
close(s) ==
    IF s.db = "None" THEN Complete(s, "returned", NoError)
    ELSE IF s.db = "closed"
    THEN Complete([s EXCEPT !.c_failed = TRUE], "ProgrammingError",
                  [kind |-> "ProgrammingError", code |-> 0,
                   annotated |-> FALSE])
    ELSE Complete([s EXCEPT !.db = "None", !.handles = @ - 1],
                  "returned", NoError)

Begin(c) ==
    /\ conn[c].op = "idle"
    /\ conn' = [conn EXCEPT ![c] = _begin(NewCall(conn[c], "begin"))]
    /\ UNCHANGED <<server_locks, server_version, dsn_vars, pool_vars>>

Finish(c) ==
    /\ conn[c].op = "idle"
    /\ conn' = [conn EXCEPT ![c] = _finish(unregister(NewCall(conn[c], "finish")))]
    /\ UNCHANGED <<server_locks, server_version, dsn_vars, pool_vars>>

Abort(c) ==
    /\ conn[c].op = "idle"
    /\ conn' = [conn EXCEPT ![c] = _abort(unregister(NewCall(conn[c], "abort")))]
    /\ UNCHANGED <<server_locks, server_version, dsn_vars, pool_vars>>

Savepoint(c) ==
    /\ conn[c].op = "idle"
    /\ conn' = [conn EXCEPT ![c] = savepoint(NewCall(conn[c], "savepoint"))]
    /\ UNCHANGED <<server_locks, server_version, dsn_vars, pool_vars>>

Variables(c) ==
    /\ conn[c].op = "idle"
    /\ conn' = [conn EXCEPT ![c] = execute(NewCall(conn[c], "variables"),
                                           "variables", "SHOW VARIABLES")]
    /\ UNCHANGED <<server_locks, server_version, dsn_vars, pool_vars>>

Tables(c) ==
    /\ conn[c].op = "idle"
    /\ conn' = [conn EXCEPT ![c] = execute(NewCall(conn[c], "tables"),
                                           "tables", "SHOW TABLES")]
    /\ UNCHANGED <<server_locks, server_version, dsn_vars, pool_vars>>

Columns(c) ==
    /\ conn[c].op = "idle"
    /\ conn' = [conn EXCEPT ![c] = execute(NewCall(conn[c], "columns"),
                                           "columns", "SHOW COLUMNS")]
    /\ UNCHANGED <<server_locks, server_version, dsn_vars, pool_vars>>

Close(c) ==
    /\ conn[c].op = "idle"
    /\ conn' = [conn EXCEPT ![c] = close(NewCall(conn[c], "close"))]
    /\ server_locks' = IF conn[c].db = "open" THEN ServerClose(server_locks, c)
                       ELSE server_locks
    /\ UNCHANGED <<server_version, dsn_vars, pool_vars>>

\* self.db.ping() in _begin
NativePing(c) ==
    /\ conn[c].q_state = "ping"
    /\ \E o \in Outcomes(conn[c]) :
         conn' = [conn EXCEPT ![c] =
                     IF o = NoError
                     THEN AfterItem([conn[c] EXCEPT !.q_state = "none"],
                                    server_version)
                     ELSE Raise([conn[c] EXCEPT !.c_failed = TRUE], o)]
    /\ UNCHANGED <<server_locks, server_version, dsn_vars, pool_vars>>

\* line 458: self.db.query(query), and line 483 when it returned
NativeSubmit(c) ==
    /\ conn[c].q_state = "submit"
    /\ \E o \in Outcomes(conn[c]) :
         /\ conn' = [conn EXCEPT ![c] =
                        IF o = NoError
                        THEN AfterItem(Submitted(conn[c], o), server_version)
                        ELSE OnError(Submitted(conn[c], o), o)]
         /\ server_locks' =
                IF o = NoError /\ Truthy(conn[c]._mysql_lock)
                THEN ServerExec(server_locks, c, conn[c].q_stmt,
                                conn[c]._mysql_lock)
                ELSE server_locks
    /\ UNCHANGED <<server_version, dsn_vars, pool_vars>>

\* lines 473, 477: self._forceReconnection() in an except clause of _query
NativeReconnect(c) ==
    /\ conn[c].q_state = "reconnect"
    /\ \E how \in {"ok", "connect_fails", "ping_fails"} :
         conn' = [conn EXCEPT ![c] =
                     AfterReconnect(Reconnected(conn[c], how), how)]
    /\ server_locks' = IF conn[c].db = "open" THEN ServerClose(server_locks, c)
                       ELSE server_locks
    /\ UNCHANGED <<server_version, dsn_vars, pool_vars>>

\* line 474: the second self.db.query(query); its exception is not handled
NativeResubmit(c) ==
    /\ conn[c].q_state = "resubmit"
    /\ \E o \in Outcomes(conn[c]) :
         /\ conn' = [conn EXCEPT ![c] =
                        IF o = NoError
                        THEN AfterItem(Submitted(conn[c], o), server_version)
                        ELSE OnRetryError(Submitted(conn[c], o), o)]
         /\ server_locks' =
                IF o = NoError /\ Truthy(conn[c]._mysql_lock)
                THEN ServerExec(server_locks, c, conn[c].q_stmt,
                                conn[c]._mysql_lock)
                ELSE server_locks
    /\ UNCHANGED <<server_version, dsn_vars, pool_vars>>

Transactional == {0, CLIENT_TRANSACTIONS}

\* one connection object; the second does not exist
Init ==
    /\ \E t \in Transactional, l \in {PyNone, <<"a">>} :
         conn = [c \in Conns |-> IF c = 1 THEN NewConn(t, l) ELSE NoConn]
    /\ server_locks = [n \in LockNames |-> 0]
    /\ server_version \in Versions
    /\ NoDSN
    /\ NewPool

Next ==
    \E c \in Conns :
        \/ Begin(c) \/ Finish(c) \/ Abort(c) \/ Savepoint(c)
        \/ Variables(c) \/ Tables(c) \/ Columns(c) \/ Close(c)
        \/ NativePing(c) \/ NativeSubmit(c) \/ NativeReconnect(c)
        \/ NativeResubmit(c)

Spec == Init /\ [][Next]_vars

-----------------------------------------------------------------------------
(* Two connection objects that may share a lock name *)

InitLock ==
    /\ \E t1, t2 \in Transactional, l2 \in LockNames :
         conn = [c \in Conns |-> IF c = 1 THEN NewConn(t1, <<"a">>)
                                 ELSE NewConn(t2, l2)]
    /\ server_locks = [n \in LockNames |-> 0]
    /\ server_version = <<"5", ".", "0", ".", "3">>
    /\ NoDSN
    /\ NewPool

NextLock ==
    \E c \in Conns :
        \/ Begin(c) \/ Finish(c) \/ Abort(c)
        \/ NativePing(c) \/ NativeSubmit(c) \/ NativeReconnect(c)

SpecLock == InitLock /\ [][NextLock]_vars

-----------------------------------------------------------------------------
(* DB.query: a batch of statements *)

MaxBatch == 3

\* statements by their first word and the schema of their result set;
\* no CALL statement is drawn, so line 508 (next_result) is never reached
UserStatements ==
    {[sql |-> "SELECT a", word |-> "SELECT", qtype |-> "",
      schema |-> <<"a">>, limit |-> <<>>],
     [sql |-> "select b, c", word |-> "select", qtype |-> "",
      schema |-> <<"b", "c">>, limit |-> <<>>],
     [sql |-> "UPDATE", word |-> "UPDATE", qtype |-> "",
      schema |-> PyNone, limit |-> <<>>]}

Batches == UNION {[1..n -> UserStatements] : n \in 0..MaxBatch}

MaxRows == {0, 1000}

\* str.upper on the first words that are drawn
upper(word) == IF word = "select" THEN "SELECT" ELSE word

\* every SELECT gets the LIMIT, whatever max_rows is
limited_always(stmt, max_rows) ==
    IF upper(stmt.word) = "SELECT"
    THEN [stmt EXCEPT !.qtype = upper(stmt.word), !.limit = <<max_rows>>]
    ELSE [stmt EXCEPT !.qtype = upper(stmt.word)]

\* lines 492-494: qtype, and " LIMIT %d" for a SELECT when max_rows is true
limited(stmt, max_rows) ==
    IF upper(stmt.word) = "SELECT" /\ max_rows # 0
    THEN [stmt EXCEPT !.qtype = upper(stmt.word), !.limit = <<max_rows>>]
    ELSE [stmt EXCEPT !.qtype = upper(stmt.word)]

query_items(batch, max_rows) ==
    [i \in 1..Len(batch) |-> Item("query", limited(batch[i], max_rows))]

\* the first query of a transaction calls _begin
_register(s) == IF ~s._registered THEN _begin(s) ELSE Arm(s)

\* lines 488-495
query(s, batch, max_rows) ==
    IF Truthy(s._use_TM)
    THEN _register([s EXCEPT !.max_rows = max_rows,
                             !.todo = query_items(batch, max_rows)])
    ELSE Arm([s EXCEPT !.max_rows = max_rows,
                       !.todo = query_items(batch, max_rows)])

Query(c) ==
    /\ conn[c].op = "idle"
    /\ \E batch \in Batches, max_rows \in MaxRows :
         conn' = [conn EXCEPT ![c] = query(NewCall(conn[c], "query"), batch,
                                           max_rows)]
    /\ UNCHANGED <<server_locks, server_version, dsn_vars, pool_vars>>

InitQuery ==
    /\ \E t \in Transactional, l \in {PyNone, <<"a">>} :
         conn = [c \in Conns |-> IF c = 1 THEN NewConn(t, l) ELSE NoConn]
    /\ server_locks = [n \in LockNames |-> 0]
    /\ server_version = <<"5", ".", "0", ".", "3">>
    /\ NoDSN
    /\ NewPool

NextQuery ==
    \E c \in Conns :
        \/ Query(c) \/ Finish(c)
        \/ NativePing(c) \/ NativeSubmit(c) \/ NativeReconnect(c)
        \/ NativeResubmit(c)

SpecQuery == InitQuery /\ [][NextQuery]_vars

-----------------------------------------------------------------------------
(* DBPool._access_db, closeConnection and close, one step per access to   *)
(* the shared attributes: threads are switched between any two of them.   *)

MaxCalls == 2

\* DB object number i
DBObject(i) == <<"DB", i>>

\* _pool_get that finds nothing
_pool_get_miss(pool, key) == PyNone

\* line 207
_pool_get(pool, key) == Get(pool, key)

\* line 201
_pool_set(pool, key, value) == Put(pool, key, value)

\* del that empties the dict
_pool_del_all(pool, key) == EmptyDict

\* line 215; KeyError when the key is missing
_pool_del(pool, key) == Del(pool, key)

Step(t, pc) == [thread EXCEPT ![t].pc = pc]

\* lines 249-250: a pass-through method is called in thread t
AccessDb(t) ==
    /\ thread[t].pc = "idle"
    /\ thread[t].calls < MaxCalls
    /\ thread' = [thread EXCEPT ![t].pc = "get", ![t].ref = _db_pool,
                                ![t].calls = @ + 1]
    /\ UNCHANGED <<_db_pool, heap, _db_lock, created, used, pool_reset,
                   dsn_vars, conn_vars>>

\* lines 250-251: db = self._pool_get(ident); if db is None
PoolGet(t) ==
    /\ thread[t].pc = "get"
    /\ thread' = [thread EXCEPT
                    ![t].db = _pool_get(heap[thread[t].ref], t),
                    ![t].pc = IF _pool_get(heap[thread[t].ref], t) = PyNone
                              THEN "create" ELSE "call"]
    /\ UNCHANGED <<_db_pool, heap, _db_lock, created, used, pool_reset,
                   dsn_vars, conn_vars>>

\* line 252: db = self.DB(**self._db_flags), which connects and may raise
Create(t) ==
    /\ thread[t].pc = "create"
    /\ \/ /\ created' = Append(created, t)
          /\ thread' = [thread EXCEPT ![t].db = DBObject(Len(created) + 1),
                                      ![t].pc = "acquire"]
       \/ /\ thread' = [thread EXCEPT ![t].pc = "idle"]
          /\ UNCHANGED created
    /\ UNCHANGED <<_db_pool, heap, _db_lock, used, pool_reset,
                   dsn_vars, conn_vars>>

\* lines 199, 213: self._db_lock.acquire()
Acquire(t) ==
    /\ thread[t].pc \in {"acquire", "del_acquire"}
    /\ _db_lock = 0
    /\ _db_lock' = t
    /\ thread' = Step(t, IF thread[t].pc = "acquire" THEN "set_load"
                         ELSE "del_load")
    /\ UNCHANGED <<_db_pool, heap, created, used, pool_reset,
                   dsn_vars, conn_vars>>

\* lines 201, 215: self._db_pool is read
Load(t) ==
    /\ thread[t].pc \in {"set_load", "del_load"}
    /\ thread' = [thread EXCEPT ![t].ref = _db_pool,
                                ![t].pc = IF thread[t].pc = "set_load"
                                          THEN "set_store" ELSE "del_store"]
    /\ UNCHANGED <<_db_pool, heap, _db_lock, created, used, pool_reset,
                   dsn_vars, conn_vars>>

\* line 201: the dict that was read gets [key] = value
Store(t) ==
    /\ thread[t].pc = "set_store"
    /\ heap' = [heap EXCEPT ![thread[t].ref] = _pool_set(@, t, thread[t].db)]
    /\ thread' = Step(t, "release")
    /\ UNCHANGED <<_db_pool, _db_lock, created, used, pool_reset,
                   dsn_vars, conn_vars>>

\* line 215: del on the dict that was read, KeyError when the key is
\* missing
DelStore(t) ==
    /\ thread[t].pc = "del_store"
    /\ heap' = [heap EXCEPT ![thread[t].ref] =
                   IF t \in DOMAIN @ THEN _pool_del(@, t) ELSE @]
    /\ thread' = [thread EXCEPT
                    ![t].pc = "del_release",
                    ![t].exc = IF t \in DOMAIN heap[thread[t].ref]
                               THEN "None" ELSE "KeyError"]
    /\ UNCHANGED <<_db_pool, _db_lock, created, used, pool_reset,
                   dsn_vars, conn_vars>>

\* the lock is released only when the try block raised nothing
release_unless_raised(lock, exc) == IF exc = "None" THEN 0 ELSE lock

\* lines 202-203, 216-217: finally: self._db_lock.release()
finally_release(lock, exc) == 0

\* lines 183-186: try: self._pool_del(ident) except KeyError: pass
closeConnection_except(exc) ==
    IF exc \in {"None", "KeyError"} THEN "returned" ELSE exc

\* lines 203, 217: the lock is released; _pool_set returns to _access_db,
\* _pool_del returns or raises to closeConnection
Release(t) ==
    /\ thread[t].pc \in {"release", "del_release"}
    /\ _db_lock' = finally_release(_db_lock, thread[t].exc)
    /\ thread' = [thread EXCEPT
                    ![t].pc = IF thread[t].pc = "release" THEN "call"
                              ELSE "idle",
                    ![t].exc = "None",
                    ![t].outcome = IF thread[t].pc = "release" THEN @
                                   ELSE closeConnection_except(thread[t].exc)]
    /\ UNCHANGED <<_db_pool, heap, created, used, pool_reset,
                   dsn_vars, conn_vars>>

\* line 254: the method of the DB object runs in thread t
Delegate(t) ==
    /\ thread[t].pc = "call"
    /\ used' = used \cup {<<thread[t].db[2], t>>}
    /\ thread' = [thread EXCEPT ![t].pc = "idle", ![t].served = @ + 1]
    /\ UNCHANGED <<_db_pool, heap, _db_lock, created, pool_reset,
                   dsn_vars, conn_vars>>

\* lines 183-187
CloseConnection(t) ==
    /\ thread[t].pc = "idle"
    /\ thread[t].calls < MaxCalls
    /\ thread' = [thread EXCEPT ![t].pc = "del_acquire", ![t].calls = @ + 1,
                                ![t].outcome = "running"]
    /\ pool_reset' = TRUE
    /\ UNCHANGED <<_db_pool, heap, _db_lock, created, used,
                   dsn_vars, conn_vars>>

\* line 194: self._db_pool = {}
PoolClose(t) ==
    /\ thread[t].pc = "idle"
    /\ thread[t].calls < MaxCalls
    /\ heap' = Append(heap, EmptyDict)
    /\ _db_pool' = Len(heap) + 1
    /\ thread' = [thread EXCEPT ![t].calls = @ + 1]
    /\ pool_reset' = TRUE
    /\ UNCHANGED <<_db_lock, created, used, dsn_vars, conn_vars>>

InitPool ==
    /\ NewPool
    /\ NoConns
    /\ NoDSN

NextPool ==
    \E t \in Threads :
        \/ AccessDb(t) \/ PoolGet(t) \/ Create(t) \/ Acquire(t) \/ Load(t)
        \/ Store(t) \/ Release(t) \/ Delegate(t)
        \/ CloseConnection(t) \/ DelStore(t) \/ PoolClose(t)

SpecPool == InitPool /\ [][NextPool]_vars

-----------------------------------------------------------------------------
(* Claims about the pool *)

CreatedBy(t) == {i \in 1..Len(created) : created[i] = t}

\* C3: while only pass-through methods have been called, every thread has
\* created at most one DB object, and exactly one once a call of its was
\* served; the entry of the pool under a thread's ident is the object that
\* thread created; and every DB object was used only by its creator.
C3_OnePerThread ==
    ~pool_reset =>
        /\ \A t \in Threads :
               /\ Cardinality(CreatedBy(t)) <= 1
               /\ thread[t].served > 0 => Cardinality(CreatedBy(t)) = 1
        /\ \A k \in DOMAIN heap[_db_pool] :
               created[heap[_db_pool][k][2]] = k
        /\ \A u \in used : created[u[1]] = u[2]

\* both threads were served, one of them twice, interleaved
C3_Witness ==
    /\ ~pool_reset
    /\ \A t \in Threads : thread[t].served > 0
    /\ thread[1].served = 2
    /\ Len(created) = 2
    /\ created[1] = 2

\* C12: the step of closeConnection() that deletes takes the calling
\* thread's entry out of the mapping and changes no entry of another
\* thread, in no dict object; with no entry it changes nothing; and
\* closeConnection() always returns without an exception.
C12_CloseConnectionFrame ==
    [][\A t \in Threads :
          /\ thread[t].pc = "del_store" /\ thread'[t].pc = "del_release" =>
                /\ _db_pool' = _db_pool
                /\ t \notin DOMAIN heap'[_db_pool]
                /\ \A d \in DOMAIN heap :
                       /\ DOMAIN heap[d] \ {t} \subseteq DOMAIN heap'[d]
                       /\ DOMAIN heap'[d] \subseteq DOMAIN heap[d]
                       /\ \A k \in DOMAIN heap'[d] : heap'[d][k] = heap[d][k]
                /\ t \notin DOMAIN heap[thread[t].ref] => heap' = heap
          /\ thread[t].pc = "del_release" /\ thread'[t].pc = "idle" =>
                /\ thread'[t].outcome = "returned"
                /\ heap' = heap /\ _db_pool' = _db_pool]_vars

\* the entry of a thread was deleted while the other thread has one
C12_Witness ==
    \E t, u \in Threads :
        /\ t # u
        /\ thread[t].pc = "del_release"
        /\ thread[t].exc = "None"
        /\ thread[t].served > 0
        /\ u \in DOMAIN heap[thread[t].ref]

\* C14: every step that changes the mapping (an entry set, an entry
\* deleted, the mapping cleared by close()) is taken by a thread that holds
\* _db_lock, and no dict object is changed once it exists.
C14_MutationsUnderLock ==
    [][/\ (heap' # heap \/ _db_pool' # _db_pool) =>
              /\ _db_lock # 0
              /\ thread'[_db_lock] # thread[_db_lock]
       /\ \A d \in DOMAIN heap : heap'[d] = heap[d]]_vars

LockHeld == {"set_load", "set_store", "release",
             "del_load", "del_store", "del_release"}

\* C15: a thread holds _db_lock only between the acquire and the release
\* of _pool_set or _pool_del: not while the method of the DB object runs,
\* not during the lookup, and not after _pool_del raised KeyError.
C15_LockNotHeldInCall ==
    \A t \in Threads : (_db_lock = t) <=> (thread[t].pc \in LockHeld)

\* a DB method is running in one thread while the other holds the lock in
\* a _pool_del that raised KeyError
C15_Witness ==
    \E t, u \in Threads :
        /\ t # u
        /\ thread[t].pc = "call"
        /\ thread[u].pc = "del_release"
        /\ thread[u].exc = "KeyError"
        /\ _db_lock = u

-----------------------------------------------------------------------------
(* Claims about DB._query and the transaction callbacks *)

Unsafe(s) == Truthy(s._mysql_lock) \/ s._transactions # 0

ConnectionLost(e) ==
    /\ e.kind \in {"OperationalError", "ProgrammingError"}
    /\ e.code \in hosed_connection

\* C1: when the submission of a statement in _query fails with a
\* connection-lost code, a connection that is transactional or has a lock
\* re-raises the error with no reconnect and no second submission, and a
\* connection that is neither reconnects exactly once and, the reconnect
\* done, submits the statement exactly once more.
C1_ReconnectOnlyWhenSafe ==
    \A c \in Conns :
        ConnectionLost(conn[c].q_err) =>
            IF Unsafe(conn[c])
            THEN /\ conn[c].q_reconnects = 0
                 /\ conn[c].q_submits = 1
                 /\ conn[c].q_outcome = "raised"
                 /\ conn[c].q_exc = conn[c].q_err
            ELSE /\ conn[c].q_reconnects <= 1
                 /\ conn[c].q_submits <= 2
                 /\ conn[c].q_outcome # "running" =>
                        /\ conn[c].q_reconnects = 1
                        /\ conn[c].q_submits = 2
                              \/ conn[c].q_exc = ConnectError

\* C4: finish() or abort() on an idle connection returns without an
\* exception, sends no statement and leaves the connection idle.
C4_IdleFinishIsNoOp ==
    \A c \in Conns :
        (conn[c].c_op \in {"finish", "abort"} /\ ~conn[c].c_was_begun) =>
            /\ conn[c].op = "idle"
            /\ conn[c].c_outcome = "returned"
            /\ conn[c].c_sent = <<>>
            /\ ~conn[c]._transaction_begun

\* a second finish in a row, on a connection that has something to send
C4_Witness ==
    \E c \in Conns :
        /\ conn[c].c_op = "finish"
        /\ conn[c].c_after_end
        /\ ~conn[c].c_was_begun
        /\ conn[c]._transactions # 0
        /\ Truthy(conn[c]._mysql_lock)
        /\ conn[c].c_outcome = "returned"

\* C5: begin() and finish() either return or raise ConflictError, and
\* raise ConflictError whenever a native call of theirs failed.
C5_ConflictError ==
    \A c \in Conns :
        (conn[c].c_op \in {"begin", "finish"} /\ conn[c].op = "idle") =>
            /\ conn[c].c_outcome \in {"returned", "ConflictError"}
            /\ conn[c].c_failed => conn[c].c_outcome = "ConflictError"

\* begin() failed in the lock acquisition with a native ProgrammingError
C5_Witness ==
    \E c \in Conns :
        /\ conn[c].c_op = "begin"
        /\ conn[c].op = "idle"
        /\ conn[c].q_stmt = "GET_LOCK"
        /\ conn[c].q_err.kind = "ProgrammingError"
        /\ conn[c].c_outcome = "ConflictError"

\* C6 as stated: savepoint() on an idle connection raises AttributeError
\* and no statement was submitted during the call.
C6_IdleSavepointSendsNothing ==
    \A c \in Conns :
        (conn[c].c_op = "savepoint" /\ ~conn[c].c_was_begun
           /\ conn[c].op = "idle") =>
            /\ conn[c].c_outcome = "AttributeError"
            /\ conn[c].c_sent = <<>>

\* C6, amended: savepoint() on an idle connection never submits SAVEPOINT;
\* it submits nothing when the server version is cached and only
\* SHOW VARIABLES (at most twice) when it is not, and it raises
\* AttributeError unless that _query raised.
C6_IdleSavepointSendsNoSavepoint ==
    \A c \in Conns :
        (conn[c].c_op = "savepoint" /\ ~conn[c].c_was_begun) =>
            /\ \A i \in 1..Len(conn[c].c_sent) :
                   conn[c].c_sent[i] = "SHOW VARIABLES"
            /\ Len(conn[c].c_sent) <= 2
            /\ conn[c].c_was_cached => conn[c].c_sent = <<>>
            /\ conn[c].op = "idle" =>
                   \/ conn[c].c_outcome = "AttributeError"
                   \/ /\ conn[c].q_outcome = "raised"
                      /\ conn[c].c_exc = conn[c].q_exc
                      /\ ~conn[c].c_was_cached

\* the version was fetched, the server supports savepoints, and the call
\* raised AttributeError because the connection is idle
C6_Witness ==
    \E c \in Conns :
        /\ conn[c].c_op = "savepoint"
        /\ ~conn[c].c_was_begun
        /\ ~conn[c].c_was_cached
        /\ conn[c].op = "idle"
        /\ conn[c].c_sent = <<"SHOW VARIABLES">>
        /\ Truthy(conn[c]._version)
        /\ ~str_lt(conn[c]._version, <<"5", ".", "0", ".", "2">>)
        /\ conn[c].c_outcome = "AttributeError"

SyntaxClass(e) ==
    e.kind = "OperationalError" /\ e.code \in query_syntax_error

\* C8: an OperationalError with a code of query_syntax_error from the
\* submission is raised again with the statement text added, with no
\* reconnect and no second submission, on every connection.
C8_SyntaxErrorNotRetried ==
    \A c \in Conns :
        SyntaxClass(conn[c].q_err) =>
            /\ conn[c].q_outcome = "raised"
            /\ conn[c].q_exc = [kind |-> "OperationalError",
                                code |-> conn[c].q_err.code,
                                annotated |-> TRUE]
            /\ conn[c].q_reconnects = 0
            /\ conn[c].q_submits = 1
            /\ conn[c].q_state = "none"

\* a syntax error on a connection that would otherwise reconnect and retry
C8_Witness ==
    \E c \in Conns :
        /\ SyntaxClass(conn[c].q_err)
        /\ ~Unsafe(conn[c])
        /\ conn[c].c_op = "tables"
        /\ conn[c].c_outcome = "OperationalError"

\* C2: two connections with the same lock name have never both completed
\* begin() with no finish() or abort() since, while one of them holds the
\* lock on the server.
C2_LockExcludes ==
    \A c, d \in Conns :
        (/\ c # d
         /\ Truthy(conn[c]._mysql_lock)
         /\ conn[c]._mysql_lock = conn[d]._mysql_lock
         /\ server_locks[conn[c]._mysql_lock] = c) =>
            ~(conn[c].began /\ conn[d].began)

DiffersFromEarlier(results, j) ==
    /\ results[j] # PyNone
    /\ \E i \in 1..(j - 1) : results[i] # PyNone /\ results[i] # results[j]

\* C7: a query() in which a statement returned a result set whose schema
\* differs from the schema of a result set returned earlier in the batch
\* raises ProgrammingError("Multiple select schema are not allowed.").
C7_SchemaMismatchRaises ==
    \A c \in Conns :
        (/\ conn[c].c_op = "query"
         /\ conn[c].op = "idle"
         /\ \E j \in 1..Len(conn[c].c_results) :
                DiffersFromEarlier(conn[c].c_results, j)) =>
            /\ conn[c].c_outcome = "ProgrammingError"
            /\ conn[c].c_exc = SchemaError

\* statements whose first word is SELECT, in any case
IsSelect(sql) == sql \in {"SELECT a", "select b, c"}

\* C11: every statement query() submits carries " LIMIT max_rows" exactly
\* when its first word is SELECT and max_rows is true; every other
\* statement is submitted as written.
C11_LimitOnSelect ==
    \A c \in Conns :
        conn[c].c_op = "query" =>
            \A i \in 1..Len(conn[c].c_sent) :
                conn[c].c_limit[i] =
                    IF IsSelect(conn[c].c_sent[i]) /\ conn[c].max_rows # 0
                    THEN <<conn[c].max_rows>>
                    ELSE <<>>

\* a batch with an UPDATE and two SELECTs, one in lower case, with a cap
C11_Witness ==
    \E c \in Conns :
        /\ conn[c].c_op = "query"
        /\ conn[c].op = "idle"
        /\ conn[c].max_rows # 0
        /\ conn[c].c_sent = <<"UPDATE", "select b, c", "SELECT a">>
        /\ conn[c].c_limit = <<<<>>, <<conn[c].max_rows>>,
                                <<conn[c].max_rows>>>>


\* C13: a call of tables, columns, variables, query, savepoint or of a
\* transaction callback in which a native call failed, and was not made
\* good by the reconnect and re-submission of _query, does not return
\* normally: the caller gets an exception.
C13_FailuresReachCaller ==
    \A c \in Conns :
        (/\ conn[c].op = "idle"
         /\ conn[c].c_op \in {"tables", "columns", "variables", "query",
                              "savepoint", "begin", "finish", "abort"}
         /\ conn[c].c_failed
         /\ conn[c].q_outcome # "returned") =>
            conn[c].c_outcome # "returned"

\* C16: a call of _query submits the statement at most twice and
\* reconnects at most once, whatever the native client raises; when the
\* second submission fails, _query raises that exception as it is, and
\* neither reconnects nor submits again.
C16_AtMostOneRetry ==
    \A c \in Conns :
        /\ conn[c].q_submits <= 2
        /\ conn[c].q_reconnects <= 1
        /\ conn[c].q_retry_err # NoError =>
               /\ conn[c].q_submits = 2
               /\ conn[c].q_reconnects = 1
               /\ conn[c].q_state = "none"
               /\ conn[c].q_outcome = "raised"
               /\ conn[c].q_exc = conn[c].q_retry_err

\* the second submission failed with a code that made the first one
\* reconnect
C16_Witness ==
    \E c \in Conns :
        /\ conn[c].q_err.code = CR_SERVER_GONE_ERROR
        /\ conn[c].q_retry_err.kind = "OperationalError"
        /\ conn[c].q_retry_err.code = CR_SERVER_LOST
        /\ conn[c].c_op = "variables"
        /\ conn[c].c_outcome = "OperationalError"

\* the statements finish() or abort() of this connection is to send
EndStatements(s, last) ==
    (IF Truthy(s._mysql_lock) THEN <<"RELEASE_LOCK">> ELSE <<>>)
      \o (IF s._transactions # 0 THEN <<last>> ELSE <<>>)

IsPrefix(a, b) == Len(a) <= Len(b) /\ \A i \in 1..Len(a) : a[i] = b[i]

\* C17: finish() on an active connection sends RELEASE_LOCK (with a lock
\* name) and then COMMIT (when transactional), and the connection is still
\* marked active as long as one of these statements is to be submitted.
C17_IdleOnlyAfterStatements ==
    \A c \in Conns :
        (conn[c].c_op = "finish" /\ conn[c].c_was_begun) =>
            /\ IsPrefix(conn[c].c_sent, EndStatements(conn[c], "COMMIT"))
            /\ conn[c].op = "finish" => conn[c]._transaction_begun

\* C18: abort() on an active connection sends RELEASE_LOCK when a lock
\* name is configured and then ROLLBACK exactly when the connection is
\* transactional, and nothing else; when no native call fails it returns
\* without an exception, also on a non-transactional connection.
C18_AbortStatements ==
    \A c \in Conns :
        (conn[c].c_op = "abort" /\ conn[c].c_was_begun) =>
            /\ IsPrefix(conn[c].c_sent, EndStatements(conn[c], "ROLLBACK"))
            /\ (conn[c].op = "idle" /\ ~conn[c].c_failed) =>
                   /\ conn[c].c_sent = EndStatements(conn[c], "ROLLBACK")
                   /\ conn[c].c_outcome = "returned"

\* an abort of a transaction of a locked, non-transactional connection
C18_Witness ==
    \E c \in Conns :
        /\ conn[c].c_op = "abort"
        /\ conn[c].c_was_begun
        /\ conn[c].op = "idle"
        /\ conn[c]._transactions = 0
        /\ conn[c].c_sent = <<"RELEASE_LOCK">>
        /\ conn[c].c_outcome = "returned"

Last(q) == q[Len(q)]

EmptyReturn == [items |-> <<>>, rows |-> <<>>]

\* what the last statement of the batch returned: its schema and rows, or
\* nothing
OfLastStatement(s) ==
    IF s.c_results = <<>> \/ Last(s.c_results) = PyNone THEN EmptyReturn
    ELSE [items |-> Last(s.c_results), rows |-> <<Last(s.c_sent)>>]

\* C19 as stated: a query() that returns gives the schema and rows of the
\* last statement of the batch, and gives the empty schema and rows exactly
\* when no statement of the batch had a result set.
C19_EmptyIffNoResultAtAll ==
    \A c \in Conns :
        (conn[c].c_op = "query" /\ conn[c].op = "idle"
           /\ conn[c].c_outcome = "returned") =>
            /\ conn[c].c_return = OfLastStatement(conn[c])
            /\ conn[c].c_return = EmptyReturn <=>
                   \A i \in 1..Len(conn[c].c_results) :
                       conn[c].c_results[i] = PyNone

\* C19, amended: a query() that returns gives the schema and rows of the
\* last statement of the batch, and gives the empty schema and rows exactly
\* when the batch is empty or its last statement had no result set.
C19_ReturnsLastStatement ==
    \A c \in Conns :
        (conn[c].c_op = "query" /\ conn[c].op = "idle"
           /\ conn[c].c_outcome = "returned") =>
            /\ conn[c].c_return = OfLastStatement(conn[c])
            /\ conn[c].c_return = EmptyReturn <=>
                   \/ conn[c].c_results = <<>>
                   \/ Last(conn[c].c_results) = PyNone

\* a SELECT followed by an UPDATE returned the empty schema and rows
C19_Witness ==
    \E c \in Conns :
        /\ conn[c].c_op = "query"
        /\ conn[c].op = "idle"
        /\ conn[c].c_outcome = "returned"
        /\ conn[c].c_results = <<<<"a">>, PyNone>>
        /\ conn[c].c_return = EmptyReturn

\* C20: a connection object has at most one open native handle, the one
\* self.db refers to, also after any number of reconnects, failed or not;
\* after close() it has none.
C20_OneHandle ==
    \A c \in Conns :
        /\ conn[c].handles <= 1
        /\ conn[c].handles = 1 <=> conn[c].db = "open"
        /\ (conn[c].c_op = "close" /\ conn[c].op = "idle") =>
               conn[c].handles = 0

\* a reconnect replaced the handle and the statement went through
C20_Witness ==
    \E c \in Conns :
        /\ conn[c].c_reconnects = 1
        /\ conn[c].q_outcome = "returned"
        /\ conn[c].db = "open"
        /\ conn[c].handles = 1

\* C21: on a transactional connection every COMMIT or ROLLBACK of
\* finish() or abort() comes after a BEGIN that was submitted since the
\* connection was last idle.
C21_NoEndWithoutBegin ==
    \A c \in Conns :
        (/\ conn[c]._transactions # 0
         /\ conn[c].c_op \in {"finish", "abort"}
         /\ \E i \in 1..Len(conn[c].c_sent) :
                conn[c].c_sent[i] \in {"COMMIT", "ROLLBACK"}) =>
            conn[c].begin_sent

\* C22: once finish() or abort() is over, returned or raised, the
\* connection is idle, and a finish() or abort() called next submits
\* nothing and returns.
C22_IdleAfterEnd ==
    \A c \in Conns :
        /\ (conn[c].c_op \in {"finish", "abort"} /\ conn[c].op = "idle") =>
               ~conn[c]._transaction_begun
        /\ (conn[c].c_op \in {"finish", "abort"} /\ conn[c].c_after_end) =>
               /\ conn[c].op = "idle"
               /\ conn[c].c_sent = <<>>
               /\ conn[c].c_outcome = "returned"

\* finish() on an active connection raised because COMMIT failed
C22_Witness ==
    \E c \in Conns :
        /\ conn[c].c_op = "finish"
        /\ conn[c].c_was_begun
        /\ conn[c].op = "idle"
        /\ conn[c].q_stmt = "COMMIT"
        /\ conn[c].c_outcome = "ConflictError"
        /\ ~conn[c]._transaction_begun

-----------------------------------------------------------------------------
(* Claims about DBPool.__call__ and the parser *)

\* the trial connection of the last __call__ succeeded
Probed ==
    /\ call_result.exc \in {"None", "NotSupportedError"}
    /\ "kw_args" \in DOMAIN _db_flags

ServerSupportsTransactions == call_result.env.caps >= CLIENT_TRANSACTIONS

\* C9: __call__ reconciles the policy of the connection string with the
\* capability the trial connection found: "-" gives transactions false,
\* "+" on a server without transactions raises NotSupportedError, "+" on a
\* server with transactions gives true, and no marker gives the server's
\* capability.
C9_PolicyReconciled ==
    (Probed /\ HasTarget(dsn_parts)) =>
        /\ dsn_parts.policy = <<"-">> =>
              /\ call_result.exc = "None"
              /\ _db_flags["transactions"] = 0
        /\ (dsn_parts.policy = <<"+">> /\ ~ServerSupportsTransactions) =>
              /\ call_result.exc = "NotSupportedError"
              /\ "transactions" \notin DOMAIN _db_flags
        /\ (dsn_parts.policy = <<"+">> /\ ServerSupportsTransactions) =>
              /\ call_result.exc = "None"
              /\ _db_flags["transactions"] # 0
        /\ dsn_parts.policy = PyNone =>
              /\ call_result.exc = "None"
              /\ (_db_flags["transactions"] # 0) = ServerSupportsTransactions

\* auto policy on a server without transactions: silently downgraded
C9_Witness ==
    /\ Probed
    /\ dsn_parts.policy = PyNone /\ HasTarget(dsn_parts)
    /\ ~ServerSupportsTransactions
    /\ call_result.returned
    /\ _db_flags["transactions"] = 0

FieldsAsWritten(flags, p) ==
    LET kw == flags["kw_args"]
    IN  /\ Get(flags, "mysql_lock") = p.lock
        /\ Get(flags, "try_transactions") = p.policy
        /\ Get(kw, "db") = p.db
        /\ Get(kw, "host") = p.host
        /\ ("port" \in DOMAIN kw) = p.port.set
        /\ p.port.set => kw["port"] = p.port.num
        /\ Get(kw, "user") = p.user
        /\ Get(kw, "passwd") = p.passwd
        /\ Get(kw, "unix_socket") = p.unix_socket

\* C10: for every connection string of the documented format the parser
\* returns flags whose lock name, policy, database, host, port, user,
\* password and socket are the parts written in the string, and nothing for
\* the parts left out.
C10_ParseExtractsParts ==
    parsed.exc # "pending" =>
        /\ parsed.exc = "None"
        /\ FieldsAsWritten(parsed.flags, dsn_parts)

\* the same, for the strings that name a database token or no lock
ParseExtractsPartsGivenTarget ==
    (parsed.exc # "pending"
        /\ (HasTarget(dsn_parts) \/ dsn_parts.lock = PyNone)) =>
        /\ parsed.exc = "None"
        /\ FieldsAsWritten(parsed.flags, dsn_parts)

====
